---------------------------- MODULE Spec2Model ----------------------------
(***************************************************************************)
(* facebook_graph_analysis: the Graph store (graph.rs) and the analysis    *)
(* functions over it (analysis.rs), as main.rs drives them.                *)
(*                                                                         *)
(* Two specifications:                                                     *)
(*   SpecLoad  Graph::load_from_file folding the lines of an edge-list     *)
(*             file into an empty graph, then Graph::all_degrees.          *)
(*   Spec      the analysis functions applied to a graph store: a graph    *)
(*             folded from edges (with isolated keys), or an adjacency     *)
(*             map entered by hand as the tests do, symmetric or not.      *)
(*                                                                         *)
(* f64 scores are kept as exact quotients <<numerator, denominator>>: the  *)
(* code only ever builds them by one division of two small counts, and for *)
(* counts below 2^26 the correctly rounded f64 quotients compare exactly   *)
(* as the rationals do.  <<0, 0>> is NaN, <<n, 0>> with n > 0 is +inf.     *)
(*                                                                         *)
(* HashMap / HashSet iteration order is unspecified in Rust: every place   *)
(* that iterates one takes the order `ord` (a permutation of the node      *)
(* identifiers) as an input chosen freely by the action.                   *)
(***************************************************************************)
EXTENDS Integers, Sequences, FiniteSets, TLC

VARIABLES
    adj_list,    \* Graph.adj_list : HashMap<usize, HashSet<usize>>
    num_nodes,   \* Graph.num_nodes
    num_edges,   \* Graph.num_edges
    pc,          \* where the program is: loading / ready / bfs / done / panic
    nread,       \* lines consumed from the reader by load_from_file
    call,        \* the function called last and its arguments
    visited,     \* bfs_distances: visited
    distance,    \* bfs_distances: distance
    queue,       \* bfs_distances: queue
    result       \* value returned by the last call

vars == <<adj_list, num_nodes, num_edges, pc, nread, call,
          visited, distance, queue, result>>

---------------------------------------------------------------------------
(* Bounds *)

\* node identifiers of the graphs the analysis functions are applied to: 0..MaxNode
MaxNode == 2
\* largest node identifier written in the edge-list file
MaxId == 3
\* lines read from the edge-list file
MaxLines == 3
\* largest top_n passed to most_similar_pairs
MaxTopN == 3
\* node identifiers of the adjacency maps entered by hand: 0..MaxRawNode
MaxRawNode == 1

Nodes == 0..MaxNode

---------------------------------------------------------------------------
(* Generic helpers *)

Min(a, b) == IF a <= b THEN a ELSE b

\* all orders in which a collection holding the elements of S can be iterated
Perms(S) ==
    { f \in [1..Cardinality(S) -> S] : \A x \in S : \E i \in DOMAIN f : f[i] = x }

\* the iteration of set S under the hash order ord
Iter(S, ord) == SelectSeq(ord, LAMBDA x : x \in S)

\* HashMap::insert(k, v)
Put(m, k, v) == [x \in (DOMAIN m) \cup {k} |-> IF x = k THEN v ELSE m[x]]

EmptyMap == [x \in {} |-> {}]

---------------------------------------------------------------------------
(* graph.rs : Graph store *)

\* Graph::new()
NewGraph == [adj_list |-> EmptyMap, num_nodes |-> 0, num_edges |-> 0]

\* graph.adj_list.entry(u).or_default().insert(v)
EntryInsert(g, u, v) ==
    IF u \in DOMAIN g THEN [g EXCEPT ![u] = @ \cup {v}] ELSE Put(g, u, {v})

\* mutant: only the first endpoint records the edge
AddEdgeOneWay(g, u, v) == EntryInsert(g, u, v)

\* the two insertions of load_from_file for one edge (u, v)
AddEdge(g, u, v) == EntryInsert(EntryInsert(g, u, v), v, u)

\* mutant: the node count taken from the largest identifier
CountNodesByMaxId(g) ==
    IF DOMAIN g = {} THEN 0
    ELSE (CHOOSE m \in DOMAIN g : \A k \in DOMAIN g : k <= m) + 1

\* graph.adj_list.len()
CountNodes(g) == Cardinality(DOMAIN g)

(* ---- the text of the file ---- *)

DigitChars == <<"0", "1", "2", "3", "4", "5", "6", "7", "8", "9">>

DigitVal(c) == (CHOOSE i \in DOMAIN DigitChars : DigitChars[i] = c) - 1

IsDigit(c) == \E i \in DOMAIN DigitChars : DigitChars[i] = c

RECURSIVE ParseDigits(_, _)
ParseDigits(tok, acc) ==
    IF tok = <<>> THEN acc
    ELSE ParseDigits(Tail(tok), acc * 10 + DigitVal(Head(tok)))

\* x.parse::<usize>() : a token is a sequence of characters
ParseUsize(tok) ==
    IF tok # <<>> /\ \A i \in DOMAIN tok : IsDigit(tok[i])
    THEN [ok |-> TRUE, val |-> ParseDigits(tok, 0)]
    ELSE [ok |-> FALSE, val |-> 0]

\* the tokens the file's lines are made of: decimal identifiers, one with a
\* leading zero, a word and a negative number
Tokens ==
    { <<DigitChars[n + 1]>> : n \in 0..MaxId }
        \cup { <<"0", "1">>, <<"x">>, <<"-", "1">> }

\* tokens an edge line holds
EdgeArity == 2

\* edge_line.split_whitespace() of the lines of the file
FileLines == UNION { [1..n -> Tokens] : n \in 0..(EdgeArity + 1) }

\* .map(|x| x.parse::<usize>().unwrap()).collect() : panics at the first
\* token that does not parse
ParseLine(line) ==
    IF \E i \in DOMAIN line : ~ParseUsize(line[i]).ok
    THEN [panic |-> TRUE, parts |-> <<>>]
    ELSE [panic |-> FALSE,
          parts |-> [i \in DOMAIN line |-> ParseUsize(line[i]).val]]

\* Graph::all_degrees under iteration order ord
all_degrees(g, ord) ==
    LET keys == Iter(DOMAIN g, ord)
    IN  [i \in DOMAIN keys |-> <<keys[i], Cardinality(g[keys[i]])>>]

---------------------------------------------------------------------------
(* SpecLoad : load_from_file, then all_degrees *)

NoCall == [fn |-> "none"]

InitLoad ==
    /\ adj_list = NewGraph.adj_list
    /\ num_nodes = NewGraph.num_nodes
    /\ num_edges = NewGraph.num_edges
    /\ pc = "loading"
    /\ nread = 0
    /\ call = NoCall
    /\ visited = {}
    /\ distance = EmptyMap
    /\ queue = <<>>
    /\ result = <<>>

\* one iteration of `for line in reader.lines()` on an Ok line
ReadLine(line) ==
    /\ pc = "loading"
    /\ nread < MaxLines
    /\ nread' = nread + 1
    /\ LET p == ParseLine(line)
       IN  IF p.panic
           THEN /\ pc' = "panic"
                /\ UNCHANGED <<adj_list, num_edges>>
           ELSE IF Len(p.parts) # EdgeArity
           THEN UNCHANGED <<adj_list, num_edges, pc>>
           ELSE /\ adj_list' = AddEdge(adj_list, p.parts[1], p.parts[2])
                /\ num_edges' = num_edges + 1
                /\ pc' = pc
    /\ UNCHANGED <<num_nodes, call, visited, distance, queue, result>>

\* one iteration on an Err line (not valid UTF-8): `if let Ok(..)` skips it
ReadErrLine ==
    /\ pc = "loading"
    /\ nread < MaxLines
    /\ nread' = nread + 1
    /\ UNCHANGED <<adj_list, num_nodes, num_edges, pc, call,
                   visited, distance, queue, result>>

\* end of file: graph.num_nodes = graph.adj_list.len(); graph
FinishLoad ==
    /\ pc = "loading"
    /\ num_nodes' = CountNodes(adj_list)
    /\ pc' = "ready"
    /\ UNCHANGED <<adj_list, num_edges, nread, call,
                   visited, distance, queue, result>>

\* graph.all_degrees()
AllDegrees ==
    /\ pc = "ready"
    /\ \E ord \in Perms(0..MaxId) :
          result' = all_degrees(adj_list, ord)
    /\ call' = [fn |-> "all_degrees"]
    /\ pc' = "done"
    /\ UNCHANGED <<adj_list, num_nodes, num_edges, nread,
                   visited, distance, queue>>

NextLoad ==
    \/ \E line \in FileLines : ReadLine(line)
    \/ ReadErrLine
    \/ FinishLoad
    \/ AllDegrees

SpecLoad == InitLoad /\ [][NextLoad]_vars

---------------------------------------------------------------------------
(* f64 scores *)

\* a as f64 / b as f64
F64Div(a, b) == <<a, b>>

\* 0.0
F64Zero == <<0, 1>>

IsNaN(x) == x[1] = 0 /\ x[2] = 0

\* x.partial_cmp(&y) : None when either is NaN
PartialCmp(x, y) ==
    IF IsNaN(x) \/ IsNaN(y) THEN "None"
    ELSE IF x[1] * y[2] < y[1] * x[2] THEN "Less"
    ELSE IF x[1] * y[2] > y[1] * x[2] THEN "Greater"
    ELSE "Equal"

\* mutant: the comparator with its operands in the other order (ascending)
CompareAscending(a, b) == PartialCmp(a[2], b[2])

\* the closure |a, b| b.1.partial_cmp(&a.1) of both sort_by calls
CompareScores(a, b) == PartialCmp(b[2], a[2])

\* stable insertion of x into the sorted s: before the first element that the
\* comparator puts strictly after x
RECURSIVE SortInsert(_, _)
SortInsert(s, x) ==
    IF s = <<>> THEN <<x>>
    ELSE IF CompareScores(x, Head(s)) = "Less" THEN <<x>> \o s
    ELSE <<Head(s)>> \o SortInsert(Tail(s), x)

RECURSIVE SortFrom(_, _)
SortFrom(sorted, rest) ==
    IF rest = <<>> THEN sorted
    ELSE SortFrom(SortInsert(sorted, Head(rest)), Tail(rest))

\* v.sort_by(|a, b| b.1.partial_cmp(&a.1).unwrap()) : slice::sort_by is a
\* stable sort; with two or more elements every element is compared at least
\* once, so the unwrap panics exactly when a NaN score is present
SortByScore(v) ==
    IF Len(v) >= 2 /\ \E i \in DOMAIN v : IsNaN(v[i][2])
    THEN [panic |-> TRUE, val |-> <<>>]
    ELSE [panic |-> FALSE, val |-> SortFrom(<<>>, v)]

---------------------------------------------------------------------------
(* analysis.rs : bfs_distances *)

\* the locals of bfs_distances after the three seeding statements
BfsSeed(start) ==
    [visited |-> {start}, distance |-> Put(EmptyMap, start, 0),
     queue |-> <<start>>, panic |-> FALSE]

\* mutant: the neighbor recorded at the distance of the current node
BfsVisitSameLevel(st, neighbor, current_dist) ==
    IF neighbor \notin st.visited
    THEN [st EXCEPT !.visited = @ \cup {neighbor},
                    !.distance = Put(@, neighbor, current_dist),
                    !.queue = Append(@, neighbor)]
    ELSE st

\* the body of `for &neighbor in neighbors`
BfsVisit(st, neighbor, current_dist) ==
    IF neighbor \notin st.visited
    THEN [st EXCEPT !.visited = @ \cup {neighbor},
                    !.distance = Put(@, neighbor, current_dist + 1),
                    !.queue = Append(@, neighbor)]
    ELSE st

RECURSIVE BfsVisitAll(_, _, _)
BfsVisitAll(st, neighbors, current_dist) ==
    IF neighbors = <<>> THEN st
    ELSE BfsVisitAll(BfsVisit(st, Head(neighbors), current_dist),
                     Tail(neighbors), current_dist)

\* one iteration of `while let Some(current) = queue.pop_front()`, the queue
\* not empty; distance[&current] panics when current is no key of distance
BfsIter(g, st, ord) ==
    LET current == Head(st.queue)
        popped  == [st EXCEPT !.queue = Tail(@)]
    IN  IF current \notin DOMAIN popped.distance
        THEN [popped EXCEPT !.panic = TRUE]
        ELSE IF current \in DOMAIN g
        THEN BfsVisitAll(popped, Iter(g[current], ord), popped.distance[current])
        ELSE popped

RECURSIVE BfsLoop(_, _, _)
BfsLoop(g, st, ord) ==
    IF st.panic \/ st.queue = <<>> THEN st
    ELSE BfsLoop(g, BfsIter(g, st, ord), ord)

\* bfs_distances(graph, start): .distance is the returned map
bfs_distances(g, start, ord) == BfsLoop(g, BfsSeed(start), ord)

---------------------------------------------------------------------------
(* analysis.rs : average_distance *)

\* mutant: every distance is accumulated, the zero self-distance included
AvgAddAll(acc, dist) ==
    [acc EXCEPT !.total = @ + dist, !.count = @ + 1]

\* the body of `for &dist in distances.values()`
AvgAdd(acc, dist) ==
    IF dist > 0
    THEN [acc EXCEPT !.total = @ + dist, !.count = @ + 1]
    ELSE acc

RECURSIVE AvgAddValues(_, _, _)
AvgAddValues(acc, distances, keys) ==
    IF keys = <<>> THEN acc
    ELSE AvgAddValues(AvgAdd(acc, distances[Head(keys)]), distances, Tail(keys))

\* `for &start in graph.adj_list.keys()`
RECURSIVE AvgStarts(_, _, _, _)
AvgStarts(g, acc, starts, ord) ==
    IF acc.panic \/ starts = <<>> THEN acc
    ELSE LET bfs == bfs_distances(g, Head(starts), ord)
         IN  IF bfs.panic THEN [acc EXCEPT !.panic = TRUE]
             ELSE AvgStarts(g,
                            AvgAddValues(acc, bfs.distance,
                                         Iter(DOMAIN bfs.distance, ord)),
                            Tail(starts), ord)

\* average_distance(graph)
average_distance(g, ord) ==
    LET acc == AvgStarts(g, [total |-> 0, count |-> 0, panic |-> FALSE],
                         Iter(DOMAIN g, ord), ord)
    IN  [panic |-> acc.panic,
         val |-> IF acc.count = 0 THEN F64Zero
                 ELSE F64Div(acc.total, acc.count)]

---------------------------------------------------------------------------
(* analysis.rs : closeness_centrality *)

\* dist.values().sum()
RECURSIVE SumValues(_, _)
SumValues(m, keys) ==
    IF keys = <<>> THEN 0 ELSE m[Head(keys)] + SumValues(m, Tail(keys))

\* mutant: the start node counted among the nodes it reaches
ClosenessScoreNoMinusOne(len, sum) ==
    [panic |-> FALSE,
     val |-> IF sum > 0 THEN F64Div(len, sum) ELSE F64Zero]

\* mutant: the division without its `sum > 0` guard
ClosenessScoreUnguarded(len, sum) ==
    IF len < 1 THEN [panic |-> TRUE, val |-> F64Zero]
    ELSE [panic |-> FALSE, val |-> F64Div(len - 1, sum)]

\* if sum > 0 { (dist.len() - 1) as f64 / sum as f64 } else { 0.0 } ;
\* the usize subtraction overflows (a panic) when dist is empty
ClosenessScore(len, sum) ==
    IF sum > 0
    THEN IF len < 1 THEN [panic |-> TRUE, val |-> F64Zero]
         ELSE [panic |-> FALSE, val |-> F64Div(len - 1, sum)]
    ELSE [panic |-> FALSE, val |-> F64Zero]

\* `for &node in graph.adj_list.keys()` pushing (node, closeness)
RECURSIVE ClosenessNodes(_, _, _, _)
ClosenessNodes(g, acc, nodes, ord) ==
    IF acc.panic \/ nodes = <<>> THEN acc
    ELSE LET node  == Head(nodes)
             bfs   == bfs_distances(g, node, ord)
             dist  == bfs.distance
             score == ClosenessScore(Cardinality(DOMAIN dist),
                                     SumValues(dist, Iter(DOMAIN dist, ord)))
         IN  IF bfs.panic \/ score.panic THEN [acc EXCEPT !.panic = TRUE]
             ELSE ClosenessNodes(g,
                                 [acc EXCEPT !.val = Append(@, <<node, score.val>>)],
                                 Tail(nodes), ord)

\* closeness_centrality(graph)
closeness_centrality(g, ord) ==
    LET acc == ClosenessNodes(g, [panic |-> FALSE, val |-> <<>>],
                              Iter(DOMAIN g, ord), ord)
    IN  IF acc.panic THEN acc ELSE SortByScore(acc.val)

---------------------------------------------------------------------------
(* analysis.rs : jaccard_similarity *)

\* set1.intersection(set2).count()
IntersectionCount(set1, set2) == Cardinality({x \in set1 : x \in set2})

\* mutant: the two sizes added, shared neighbors counted twice
UnionCountNoDedup(set1, set2) == Cardinality(set1) + Cardinality(set2)

\* set1.union(set2).count() : set1, then the elements of set2 not in set1
UnionCount(set1, set2) ==
    Cardinality(set1) + Cardinality({x \in set2 : x \notin set1})

\* jaccard_similarity(graph, u, v)
jaccard_similarity(g, u, v) ==
    IF u \in DOMAIN g /\ v \in DOMAIN g
    THEN LET intersection == IntersectionCount(g[u], g[v])
             union        == UnionCount(g[u], g[v])
         IN  IF union = 0 THEN F64Zero ELSE F64Div(intersection, union)
    ELSE F64Zero

---------------------------------------------------------------------------
(* analysis.rs : most_similar_pairs *)

\* neighbors.map_or(true, |n| n.len() <= 1)
Sparse(g, u) == IF u \in DOMAIN g THEN Cardinality(g[u]) <= 1 ELSE TRUE

\* the body of the inner loop for the pair (u, v)
MspPair(g, results, u, v) ==
    IF Sparse(g, u) \/ Sparse(g, v) THEN results
    ELSE LET sim == jaccard_similarity(g, u, v)
         IN  IF PartialCmp(sim, F64Zero) = "Greater"
             THEN Append(results, <<<<u, v>>, sim>>)
             ELSE results

\* mutant: the inner loop starting at i, pairing each node with itself
InnerStartAtI(i) == i

\* first j of `for j in i + 1..nodes.len()`
InnerStart(i) == i + 1

RECURSIVE MspInner(_, _, _, _, _)
MspInner(g, nodes, results, i, j) ==
    IF j > Len(nodes) THEN results
    ELSE MspInner(g, nodes, MspPair(g, results, nodes[i], nodes[j]), i, j + 1)

\* `for i in 0..nodes.len()` (positions counted from 1 here)
RECURSIVE MspOuter(_, _, _, _)
MspOuter(g, nodes, results, i) ==
    IF i > Len(nodes) THEN results
    ELSE MspOuter(g, nodes, MspInner(g, nodes, results, i, InnerStart(i)), i + 1)

\* results.truncate(top_n)
Truncate(v, n) == SubSeq(v, 1, Min(n, Len(v)))

\* most_similar_pairs(graph, top_n)
most_similar_pairs(g, top_n, ord) ==
    LET sorted == SortByScore(MspOuter(g, Iter(DOMAIN g, ord), <<>>, 1))
    IN  IF sorted.panic THEN sorted
        ELSE [panic |-> FALSE, val |-> Truncate(sorted.val, top_n)]

---------------------------------------------------------------------------
(* Spec : the analysis functions applied to a graph store *)

\* undirected edges over Nodes, self-referencing ones included
EdgePairs == { e \in Nodes \X Nodes : e[1] <= e[2] }

RECURSIVE FoldEdges(_, _)
FoldEdges(g, edges) ==
    IF edges = {} THEN g
    ELSE LET e == CHOOSE x \in edges : TRUE
         IN  FoldEdges(AddEdge(g, e[1], e[2]), edges \ {e})

\* graph.adj_list.insert(k, HashSet::new()) for the nodes of iso not yet keys
WithIsolated(g, iso) ==
    [k \in (DOMAIN g) \cup iso |-> IF k \in DOMAIN g THEN g[k] ELSE {}]

\* the graph stores handed to the analysis functions: any set of edges folded
\* as load_from_file folds them, and any nodes entered with no neighbor the
\* way the tests enter nodes
Graphs ==
    { [adj_list |-> WithIsolated(FoldEdges(EmptyMap, edges), iso),
       num_edges |-> Cardinality(edges)] :
          edges \in SUBSET EdgePairs, iso \in SUBSET Nodes }

\* the adjacency maps entered by hand over the nodes 0..MaxRawNode, the way
\* the tests build a graph: any keys, any neighbor sets, symmetric or not, a
\* neighbor not necessarily a key
RawGraphs ==
    { [adj_list |-> m,
       num_edges |-> Cardinality({e \in EdgePairs :
                        \/ e[1] \in DOMAIN m /\ e[2] \in m[e[1]]
                        \/ e[2] \in DOMAIN m /\ e[1] \in m[e[2]]})] :
          m \in UNION { [keys -> SUBSET (0..MaxRawNode)] :
                           keys \in SUBSET (0..MaxRawNode) } }

NodeOrders == Perms(Nodes)

Init ==
    /\ \E graph \in Graphs \cup RawGraphs :
          /\ adj_list = graph.adj_list
          /\ num_nodes = CountNodes(graph.adj_list)
          /\ num_edges = graph.num_edges
    /\ pc = "ready"
    /\ nread = 0
    /\ call = NoCall
    /\ visited = {}
    /\ distance = EmptyMap
    /\ queue = <<>>
    /\ result = <<>>

BfsLocals ==
    [visited |-> visited, distance |-> distance, queue |-> queue, panic |-> FALSE]

\* bfs_distances(&graph, start) up to the first test of the loop
BfsStart(start) ==
    /\ pc = "ready"
    /\ LET st == BfsSeed(start)
       IN  /\ visited' = st.visited
           /\ distance' = st.distance
           /\ queue' = st.queue
    /\ call' = [fn |-> "bfs_distances", start |-> start]
    /\ pc' = "bfs"
    /\ UNCHANGED <<adj_list, num_nodes, num_edges, nread, result>>

\* one iteration of the while loop
BfsStep ==
    /\ pc = "bfs"
    /\ queue # <<>>
    /\ \E ord \in NodeOrders :
          LET st == BfsIter(adj_list, BfsLocals, ord)
          IN  /\ visited' = st.visited
              /\ distance' = st.distance
              /\ queue' = st.queue
              /\ pc' = IF st.panic THEN "panic" ELSE "bfs"
    /\ UNCHANGED <<adj_list, num_nodes, num_edges, nread, call, result>>

\* the queue is empty: return distance
BfsReturn ==
    /\ pc = "bfs"
    /\ queue = <<>>
    /\ result' = distance
    /\ pc' = "done"
    /\ UNCHANGED <<adj_list, num_nodes, num_edges, nread, call,
                   visited, distance, queue>>

\* the end of a call that returns r.val, or panics
Returns(r) ==
    /\ pc' = IF r.panic THEN "panic" ELSE "done"
    /\ result' = r.val
    /\ UNCHANGED <<adj_list, num_nodes, num_edges, nread,
                   visited, distance, queue>>

AverageDistance ==
    /\ pc = "ready"
    /\ call' = [fn |-> "average_distance"]
    /\ \E ord \in NodeOrders : Returns(average_distance(adj_list, ord))

ClosenessCentrality ==
    /\ pc = "ready"
    /\ call' = [fn |-> "closeness_centrality"]
    /\ \E ord \in NodeOrders : Returns(closeness_centrality(adj_list, ord))

JaccardSimilarity(u, v) ==
    /\ pc = "ready"
    /\ call' = [fn |-> "jaccard_similarity", u |-> u, v |-> v]
    /\ Returns([panic |-> FALSE, val |-> jaccard_similarity(adj_list, u, v)])

MostSimilarPairs(top_n) ==
    /\ pc = "ready"
    /\ call' = [fn |-> "most_similar_pairs", top_n |-> top_n]
    /\ \E ord \in NodeOrders : Returns(most_similar_pairs(adj_list, top_n, ord))

Next ==
    \/ \E start \in Nodes : BfsStart(start)
    \/ BfsStep
    \/ BfsReturn
    \/ AverageDistance
    \/ ClosenessCentrality
    \/ \E u, v \in Nodes : JaccardSimilarity(u, v)
    \/ \E top_n \in 0..MaxTopN : MostSimilarPairs(top_n)

Spec == Init /\ [][Next]_vars

---------------------------------------------------------------------------
(* Claims about the Graph store, checked under SpecLoad *)

\* a line that is not exactly two integer tokens
Malformed(line) ==
    \/ Len(line) # EdgeArity
    \/ \E i \in DOMAIN line : ~ParseUsize(line[i]).ok

\* C3 (as claimed): while load_from_file folds the lines, a malformed line
\* (not exactly two integer tokens) leaves adj_list and num_edges unchanged
\* and the load goes on with the following lines; it does not abort.
C3_MalformedLineIsSkipped ==
    [][\A line \in FileLines :
          (Malformed(line) /\ ReadLine(line)) =>
              /\ adj_list' = adj_list
              /\ num_edges' = num_edges
              /\ pc' = "loading"]_vars

\* C4: after every prefix of the folded edge sequence the adjacency relation
\* is symmetric (v is a neighbor of u iff u is a neighbor of v) and every
\* neighbor is itself a key of adj_list.
C4_AdjacencySymmetric ==
    \A u \in DOMAIN adj_list : \A v \in adj_list[u] :
        v \in DOMAIN adj_list /\ u \in adj_list[v]

\* a self-referencing edge, an edge and its duplicate have been folded
C4_Witness ==
    /\ pc = "loading"
    /\ num_edges = 3
    /\ DOMAIN adj_list = {0, 1}
    /\ adj_list[0] = {0, 1}
    /\ adj_list[1] = {0}

\* the graph that the edges (1,2) and (1,3) build
IsStarExample ==
    /\ DOMAIN adj_list = {1, 2, 3}
    /\ adj_list[1] = {2, 3}
    /\ adj_list[2] = {1}
    /\ adj_list[3] = {1}

\* C9: for a graph built by load_from_file, num_nodes is the number of keys of
\* adj_list, and all_degrees() returns num_nodes entries, one per node, each
\* pairing the node with the size of its neighbor set; edges (1,2) and (1,3)
\* give num_nodes = 3 and degrees 1->2, 2->1, 3->1.
C9_NodeCountAndDegrees ==
    /\ pc \in {"ready", "done"} =>
          /\ num_nodes = Cardinality(DOMAIN adj_list)
          /\ IsStarExample => num_nodes = 3
    /\ (pc = "done" /\ call.fn = "all_degrees") =>
          /\ Len(result) = num_nodes
          /\ \A k \in DOMAIN adj_list :
                /\ Cardinality({i \in DOMAIN result : result[i][1] = k}) = 1
                /\ \A i \in DOMAIN result :
                      result[i][1] = k => result[i][2] = Cardinality(adj_list[k])
          /\ IsStarExample =>
                {result[i] : i \in DOMAIN result} = {<<1, 2>>, <<2, 1>>, <<3, 1>>}

\* all_degrees has returned for the graph of edges (1,2) and (1,3)
C9_Witness ==
    /\ pc = "done"
    /\ call.fn = "all_degrees"
    /\ IsStarExample
    /\ num_edges = 2

---------------------------------------------------------------------------
(* Reference notions the claims about the analysis functions are stated in *)

\* the neighbor set of u, empty for a node that is no key
Neighbors(g, u) == IF u \in DOMAIN g THEN g[u] ELSE {}

\* the nodes of the graph: the keys and the neighbors they name
NodesOf(g) == (DOMAIN g) \cup UNION { g[k] : k \in DOMAIN g }

\* the nodes at which a walk of exactly k adjacency edges from s can end
RECURSIVE WalkEnds(_, _, _)
WalkEnds(g, s, k) ==
    IF k = 0 THEN {s}
    ELSE UNION { Neighbors(g, x) : x \in WalkEnds(g, s, k - 1) }

\* no shortest path has more edges than the graph has nodes
MaxPath(g) == Cardinality(NodesOf(g))

Reachable(g, s) == UNION { WalkEnds(g, s, k) : k \in 0..MaxPath(g) }

\* t is reachable from s: the length of a shortest path from s to t
ShortestPath(g, s, t) ==
    CHOOSE k \in 0..MaxPath(g) :
        /\ t \in WalkEnds(g, s, k)
        /\ \A j \in 0..(k - 1) : t \notin WalkEnds(g, s, j)

\* exact quotients of naturals with positive denominators
IsFinite(x) == x[2] > 0
RatEq(x, y) == IsFinite(x) /\ IsFinite(y) /\ x[1] * y[2] = y[1] * x[2]
RatLess(x, y) == IsFinite(x) /\ IsFinite(y) /\ x[1] * y[2] < y[1] * x[2]
RatLeq(x, y) == RatEq(x, y) \/ RatLess(x, y)

\* |S(u) intersect S(v)| / |S(u) union S(v)| for two keys with a neighbor
JaccardRatio(g, u, v) ==
    <<Cardinality(g[u] \cap g[v]), Cardinality(g[u] \cup g[v])>>

RECURSIVE SumOver(_, _)
SumOver(S, f) ==
    IF S = {} THEN 0
    ELSE LET x == CHOOSE y \in S : TRUE IN f[x] + SumOver(S \ {x}, f)

\* the sum of the shortest-path lengths from s to every node it reaches
DistanceSum(g, s) ==
    SumOver(Reachable(g, s), [t \in Reachable(g, s) |-> ShortestPath(g, s, t)])

\* the triangle of the tests: edges 0-1, 1-2, 0-2
IsTriangle ==
    /\ DOMAIN adj_list = {0, 1, 2}
    /\ \A k \in {0, 1, 2} : adj_list[k] = {0, 1, 2} \ {k}

\* the path 0 - 1 - 2
IsPath ==
    /\ DOMAIN adj_list = {0, 1, 2}
    /\ adj_list[0] = {1}
    /\ adj_list[1] = {0, 2}
    /\ adj_list[2] = {1}

Returned(fn) == pc = "done" /\ call.fn = fn

---------------------------------------------------------------------------
(* Claims about the analysis functions, checked under Spec *)

\* C1: bfs_distances(g, s), for s a key or not, maps s to 0, has exactly the
\* nodes reachable from s as keys, and maps each to the length of a shortest
\* path from s: a path of that length exists and no shorter one does.
C1_BfsShortestPaths ==
    Returned("bfs_distances") =>
        LET s == call.start
        IN  /\ DOMAIN result = Reachable(adj_list, s)
            /\ result[s] = 0
            /\ \A t \in DOMAIN result :
                  /\ t \in WalkEnds(adj_list, s, result[t])
                  /\ \A j \in 0..(result[t] - 1) : t \notin WalkEnds(adj_list, s, j)

\* bfs_distances has returned from the end of the path 0 - 1 - 2
C1_Witness ==
    /\ Returned("bfs_distances")
    /\ IsPath
    /\ call.start = 0
    /\ result[2] = 2

\* C2: most_similar_pairs(g, top_n) returns at most top_n pairs, each of
\* strictly positive Jaccard similarity, sorted non-increasing by similarity,
\* none holding a node of degree <= 1.
C2_TopPairsSound ==
    Returned("most_similar_pairs") =>
        /\ Len(result) <= call.top_n
        /\ \A i \in DOMAIN result :
              LET u == result[i][1][1]
                  v == result[i][1][2]
              IN  /\ u \in DOMAIN adj_list /\ v \in DOMAIN adj_list
                  /\ Cardinality(adj_list[u]) > 1
                  /\ Cardinality(adj_list[v]) > 1
                  /\ RatLess(F64Zero, result[i][2])
                  /\ RatEq(result[i][2], JaccardRatio(adj_list, u, v))
        /\ \A i, j \in DOMAIN result :
              i < j => RatLeq(result[j][2], result[i][2])

\* pairs of different similarity were found and the list was cut to top_n
C2_Witness ==
    /\ Returned("most_similar_pairs")
    /\ call.top_n = 2
    /\ Len(result) = 2
    /\ RatLess(result[2][2], result[1][2])
    /\ \A k \in Nodes : k \in DOMAIN adj_list /\ Cardinality(adj_list[k]) >= 2

\* C5: jaccard_similarity(g, u, v) is 0 when u or v is no key or the union of
\* their neighbor sets is empty, and otherwise the ratio
\* |S(u) intersect S(v)| / |S(u) union S(v)|: 1/3 for two nodes of a triangle,
\* and always between 0 and 1.
C5_JaccardValue ==
    Returned("jaccard_similarity") =>
        LET u == call.u
            v == call.v
        IN  /\ IF \/ u \notin DOMAIN adj_list
                  \/ v \notin DOMAIN adj_list
                  \/ adj_list[u] \cup adj_list[v] = {}
               THEN RatEq(result, F64Zero)
               ELSE RatEq(result, JaccardRatio(adj_list, u, v))
            /\ RatLeq(F64Zero, result) /\ RatLeq(result, <<1, 1>>)
            /\ (IsTriangle /\ u # v /\ {u, v} \subseteq DOMAIN adj_list) =>
                  RatEq(result, <<1, 3>>)

\* jaccard_similarity has returned 1/3 for nodes 0 and 1 of the triangle
C5_Witness ==
    /\ Returned("jaccard_similarity")
    /\ IsTriangle
    /\ call.u = 0 /\ call.v = 1
    /\ result = <<1, 3>>

\* the ordered pairs (start, reached node) at a strictly positive distance
PositivePairs(g) ==
    { p \in (DOMAIN g) \X Nodes :
         p[2] \in Reachable(g, p[1]) /\ ShortestPath(g, p[1], p[2]) > 0 }

PositiveSum(g) ==
    SumOver(PositivePairs(g),
            [p \in PositivePairs(g) |-> ShortestPath(g, p[1], p[2])])

\* every two distinct nodes of the graph are adjacent
Complete(g) ==
    \A u, v \in NodesOf(g) : u # v => v \in Neighbors(g, u)

AverageIsSumOverCount ==
    LET count == Cardinality(PositivePairs(adj_list))
    IN  IF count = 0 THEN RatEq(result, F64Zero)
        ELSE RatEq(result, <<PositiveSum(adj_list), count>>)

\* C6 (as claimed): average_distance(g) is sum / count over the strictly
\* positive BFS distances of all ordered pairs (start, reached node), 0 when
\* count is 0, and 1 whenever every two distinct nodes are adjacent.
C6_AverageAsClaimed ==
    Returned("average_distance") =>
        /\ AverageIsSumOverCount
        /\ Complete(adj_list) => RatEq(result, <<1, 1>>)

\* C6 (amended): average_distance(g) is sum / count over the strictly
\* positive BFS distances of all ordered pairs (start, reached node), 0 when
\* count is 0, and 1 whenever the graph has at least two nodes and every two
\* distinct nodes are adjacent.
C6_AverageDistance ==
    Returned("average_distance") =>
        /\ AverageIsSumOverCount
        /\ (Cardinality(NodesOf(adj_list)) >= 2 /\ Complete(adj_list)) =>
              RatEq(result, <<1, 1>>)

\* average_distance has returned 8/6 for the path 0 - 1 - 2
C6_Witness ==
    /\ Returned("average_distance")
    /\ IsPath
    /\ result = <<8, 6>>

\* (|reachable set| - 1) / (sum of distances), 0 when the sum is zero
ClosenessOf(g, k) ==
    IF DistanceSum(g, k) = 0 THEN F64Zero
    ELSE <<Cardinality(Reachable(g, k)) - 1, DistanceSum(g, k)>>

\* C7: closeness_centrality(g) returns exactly one entry (node, closeness) per
\* key of adj_list, with closeness = (number of nodes reachable from the node,
\* itself included, minus 1) / (sum of BFS distances from the node), or 0 when
\* that sum is zero, ordered by descending closeness.
C7_ClosenessEntries ==
    Returned("closeness_centrality") =>
        /\ Len(result) = Cardinality(DOMAIN adj_list)
        /\ \A k \in DOMAIN adj_list :
              \E i \in DOMAIN result :
                  /\ result[i][1] = k
                  /\ RatEq(result[i][2], ClosenessOf(adj_list, k))
        /\ \A i, j \in DOMAIN result :
              i < j => RatLeq(result[j][2], result[i][2])

\* closeness_centrality has returned for the path 0 - 1 - 2: the middle node
\* first with 2/2, the ends after it with 2/3
C7_Witness ==
    /\ Returned("closeness_centrality")
    /\ IsPath
    /\ result[1] = <<1, <<2, 2>>>>
    /\ result[3][2] = <<2, 3>>

\* the nodes bfs_distances has yet to dequeue, weighted so that one loop
\* iteration always lowers it: a natural number, so the loop ends
BfsMeasure == Len(queue) + 2 * Cardinality(Nodes \ visited)

\* C8: every analysis function is total: on any graph and arguments no step
\* reaches a fault (no missing distance of the current node in BFS, no
\* underflow of |reachable set| - 1, no division by zero, no failed comparison
\* while sorting), and the BFS loop terminates: each iteration lowers
\* BfsMeasure.
C8_Total ==
    [][/\ pc' # "panic"
       /\ (pc = "bfs" /\ pc' = "bfs") => BfsMeasure' < BfsMeasure]_vars

\* closeness_centrality has returned on a disconnected graph with an isolated
\* node, a self-referencing edge and a node that reaches nothing else
C8_Witness ==
    /\ Returned("closeness_centrality")
    /\ DOMAIN adj_list = {0, 1, 2}
    /\ adj_list[0] = {}
    /\ adj_list[1] = {1}
    /\ adj_list[2] = {2}
    /\ \A i \in DOMAIN result : result[i][2] = F64Zero

\* the unordered pairs of distinct nodes, both of degree >= 2, of strictly
\* positive Jaccard similarity
Qualifying(g) ==
    { q \in SUBSET (DOMAIN g) :
         /\ Cardinality(q) = 2
         /\ \A u \in q : Cardinality(g[u]) >= 2
         /\ \A u, v \in q : u # v => g[u] \cap g[v] # {} }

PairOf(entry) == {entry[1][1], entry[1][2]}

\* C10: with Q the qualifying pairs, most_similar_pairs(g, top_n) returns
\* exactly min(top_n, |Q|) entries, each a pair of Q, no pair twice (not in
\* reversed order either, never a node with itself), and no pair of Q left
\* out is strictly more similar than a returned pair.
C10_TopPairsComplete ==
    Returned("most_similar_pairs") =>
        LET Q == Qualifying(adj_list)
            returned == { PairOf(result[i]) : i \in DOMAIN result }
        IN  /\ Len(result) = Min(call.top_n, Cardinality(Q))
            /\ \A i \in DOMAIN result :
                  /\ result[i][1][1] # result[i][1][2]
                  /\ PairOf(result[i]) \in Q
            /\ \A i, j \in DOMAIN result :
                  i # j => PairOf(result[i]) # PairOf(result[j])
            /\ \A q \in Q \ returned : \A i \in DOMAIN result :
                  \A u, v \in q :
                      u # v => ~RatLess(result[i][2], JaccardRatio(adj_list, u, v))

\* three pairs qualify, two of them more similar than the third, and
\* most_similar_pairs has returned those two for top_n = 2
C10_Witness ==
    /\ Returned("most_similar_pairs")
    /\ call.top_n = 2
    /\ Cardinality(Qualifying(adj_list)) = 3
    /\ Len(result) = 2
    /\ \E q \in Qualifying(adj_list) :
          /\ \A i \in DOMAIN result : PairOf(result[i]) # q
          /\ \A u, v \in q :
                u # v => RatLess(JaccardRatio(adj_list, u, v), result[2][2])

===========================================================================
